---- MODULE Spec2Model ----
(***************************************************************************)
(* Model of extractor.py: one run of main() -- get_paginated_lists, then   *)
(* write_csv_output with its three extractor loops (get_PR_info,           *)
(* get_commit_info, get_issue_info) and the row-joining loop.              *)
(*                                                                         *)
(* Python lists are TLA+ sequences; the code's 0-based index i reads       *)
(* element i + 1 of the sequence.  A string field of a fragment is a       *)
(* record [f, src, v]: f names the field (the code's variable), src is the *)
(* entity the value was read from, v is an integer payload (isPR).         *)
(*                                                                         *)
(* Spec is that run; LiveSpec is Spec under the assumption that the quota  *)
(* resets in the end.  TextSpec applies the string conversions of one pass *)
(* of an extractor to Records with text, a str being the sequence of its   *)
(* characters; AuthSpec is read_user_info and the creation of the session  *)
(* in main().  TimerLiveSpec is timer( ) on its own for a wide range of    *)
(* arguments; FilesSpec is get_commit_info of the commit type over commits *)
(* with files; ParserSpec is one call of a function of GithubParser.py.    *)
(***************************************************************************)
EXTENDS Integers, Sequences, FiniteSets, TLC

\* ---------------------------------------------------------------- constants
RATE_LIMIT == 5

SENTINEL == " =||= "

COMMIT_COL_NAMES == <<"Author_Login", "Committer_login", "PR_Number",
                      "SHA", "Commit_Message", "File_name",
                      "Patch_text", "Additions", "Deletions",
                      "Status", "Changes">>

PR_COL_NAMES == <<"PR_Number", "Issue_Closed_Date", "Issue_Author",
                  "Issue_Title", "Issue_Body", "PR_Closed_Date",
                  "PR_Author", "PR_Title", "PR_Body", "PR_Comments",
                  "Issue_Comments", "Commit_Author", "Commit_Date",
                  "Commit_Message", "isPR">>

\* ------------------------------------------------------------------- bounds
\* largest number of commits one pull request has
MaxCommits == 2
\* a remote collection holds between RATE_LIMIT - MaxShort and RATE_LIMIT items
MaxShort == 1
\* number of passes of get_PR_info that raise RateLimitExceededException
\* after their append to pr_metalist (each one lengthens pr_metalist)
MaxRepeat == 1
\* largest value of rate_limiting_resettime - now, in seconds
MaxWait == 1
\* longest body or message text, in characters
MaxText == 3
\* largest comment count of a pull request or issue
MaxComments == 11
\* most lines of an auth file
MaxLines == 4
\* largest distance in seconds, either way, between now and the reset time
\* that timer is called with on its own
MaxCountdown == 20
\* most files of one commit
MaxFiles == 2
\* largest limit a function of GithubParser.py is called with
MaxLimit == 5
\* most items of the pulls or issues collection of GithubParser.py
MaxItems == 7

\* ----------------------------------------------------------- remote records
\* a field of a fragment: which variable of the code, read from which entity
Field(f, src) == [f |-> f, src |-> src, v |-> 0]

\* the literal " =||= " standing where a field is expected
SentinelField == [f |-> SENTINEL, src |-> <<>>, v |-> 0]

\* a commit Record of pull request n, at position pos of its commit collection
Commit(n, pos) == [kind |-> "commit", pr |-> n, pos |-> pos]

\* the literal " =||= " standing where a commit Record is expected
SentinelRef == [kind |-> SENTINEL, pr |-> 0, pos |-> 0]

\* the pull requests a repository can hold: numbered in creation order,
\* each with its own number of commits
PRLists ==
  UNION { { [i \in 1..len |-> [number |-> i, ncommits |-> c[i]]] :
              c \in [1..len -> 0..MaxCommits] } :
          len \in (RATE_LIMIT - MaxShort)..RATE_LIMIT }

\* issues_list: the empty Python list, or the lazily paginated collection
\* of closed issues, whose items are read from the remote when indexed
EmptyList == [collection |-> "none"]
ClosedIssues == [collection |-> "issues"]

\* the issue Records the remote can return for index i of the collection
IssueAt(i) == { [id |-> i + 1, pull_request |-> p] : p \in BOOLEAN }

\* the remote can run out of closed issues at index i
IssuesMayEndAt(i) == i >= RATE_LIMIT - MaxShort

\* cur_issue before the first fetch
NoIssue == [id |-> 0, pull_request |-> FALSE]

\* cur_record where no text attribute is read
NoRecord == [kind |-> "none"]

\* -------------------------------------------------------------------- state
VARIABLES
  pc,                   \* where the run is: "lists", "pr", "commit", "issue",
                        \* "write", "timer", "done", "error"
  output_type,          \* "commit" or "pr"
  pr_list,              \* get_paginated_lists: the pull requests
  issues_list,          \* get_paginated_lists: the closed issues
  pr_index,             \* get_PR_info: index
  most_recent_commit,   \* get_PR_info
  pr_metalist,          \* get_PR_info
  commits_list,         \* get_PR_info
  commit_list_index,    \* get_commit_info
  commit_info_list,     \* get_commit_info
  commit_info_metalist, \* get_commit_info
  issue_index,          \* get_issue_info: index
  isPR,                 \* get_issue_info
  cur_issue,            \* get_issue_info
  issue_metalist,       \* get_issue_info
  aggregation_index,    \* write_csv_output
  csvfile,              \* the rows handed to writer.writerow, in order
  csvfile_state,        \* "untouched", "open" (inside the with block), "closed"
  countdown_time,       \* timer: its parameter, 0 outside timer
  resume,               \* the loop whose except clause called run_timer,
                        \* "none" outside run_timer
  exception,            \* the exception that left main uncaught, or "none"
  userinfo_list,        \* read_user_info: the lines readlines returned
  value_index,          \* read_user_info: position of the for loop
  parsed_userinfo_list, \* read_user_info
  login_or_token,       \* main: the argument of github.Github( )
  cur_record,           \* the Record whose text attributes a pass reads
  info_list,            \* the string fields a pass builds from cur_record
  sleep_time,           \* run_timer: the value get_limit_info returned,
                        \* 0 outside run_timer
  commit_totals,        \* get_commit_info: its locals file_list,
                        \* commit_patch_text, commit_adds, commit_rms,
                        \* commit_status_str and commit_changes
  getter,               \* GithubParser: the function that is called
  collection,           \* GithubParser: pulls or issues, the list iterated
  inLimit,              \* GithubParser: the parameter of the function
  index,                \* GithubParser: index
  outList,              \* GithubParser: outList
  iterated              \* GithubParser: items the for statement has taken

vars == <<pc, output_type, pr_list, issues_list, pr_index, most_recent_commit,
          pr_metalist, commits_list, commit_list_index, commit_info_list,
          commit_info_metalist, issue_index, isPR, cur_issue, issue_metalist,
          aggregation_index, csvfile, csvfile_state, countdown_time, resume,
          exception, userinfo_list, value_index, parsed_userinfo_list,
          login_or_token, cur_record, info_list, sleep_time,
          commit_totals, getter, collection, inLimit, index, outList,
          iterated>>

listVars   == <<pr_list, issues_list>>
prVars     == <<pr_index, most_recent_commit, pr_metalist, commits_list>>
commitVars == <<commit_list_index, commit_info_list, commit_info_metalist>>
issueVars  == <<issue_index, isPR, cur_issue, issue_metalist>>
writeVars  == <<aggregation_index, csvfile, csvfile_state>>
authVars   == <<userinfo_list, value_index, parsed_userinfo_list,
                login_or_token>>
textVars   == <<cur_record, info_list>>
parserVars == <<getter, collection, inLimit, index, outList, iterated>>
idleVars   == <<authVars, textVars, commit_totals, parserVars>>
extractionVars == <<listVars, prVars, commitVars, issueVars, writeVars,
                    countdown_time, resume, sleep_time, exception>>

\* the locals of the extraction functions before they are called
ExtractionInit ==
  /\ pr_list = <<>>
  /\ issues_list = EmptyList
  /\ pr_index = 0
  /\ most_recent_commit = SentinelRef
  /\ pr_metalist = <<>>
  /\ commits_list = <<>>
  /\ commit_list_index = 0
  /\ commit_info_list = <<>>
  /\ commit_info_metalist = <<>>
  /\ issue_index = 0
  /\ isPR = 0
  /\ cur_issue = NoIssue
  /\ issue_metalist = <<>>
  /\ aggregation_index = 0
  /\ csvfile = <<>>
  /\ csvfile_state = "untouched"
  /\ countdown_time = 0
  /\ resume = "none"
  /\ sleep_time = 0
  /\ exception = "none"

\* the auth file is not looked at
AuthIdle ==
  /\ userinfo_list = <<>>
  /\ value_index = 0
  /\ parsed_userinfo_list = <<>>
  /\ login_or_token = <<>>

\* no text attribute is looked at
TextIdle ==
  /\ cur_record = NoRecord
  /\ info_list = <<>>

\* the files of the commits are not looked at
FileIdle == commit_totals = <<>>

\* GithubParser.py is not run
ParserIdle ==
  /\ getter = "none"
  /\ collection = <<>>
  /\ inLimit = 0
  /\ index = 0
  /\ outList = <<>>
  /\ iterated = 0

\* main() up to the call of get_paginated_lists: the output type is chosen
Init ==
  /\ pc = "lists"
  /\ output_type \in {"commit", "pr"}
  /\ ExtractionInit
  /\ AuthIdle
  /\ TextIdle
  /\ FileIdle
  /\ ParserIdle

\* ---------------------------------------------------------- rate limiting
\* get_limit_info( session, "reset" ): reset time minus current time
ResetDeltas == (0 - 1)..MaxWait

\* variant: the except clause moves on to the next item
IndexAfterRaise_Advancing(i) == i + 1

\* the loop index after the except clause: it is not assigned there
IndexAfterRaise(i) == i

\* variant: no except clause, the exception leaves the function
RunTimer_Uncaught(from) ==
  /\ sleep_time' = 0
  /\ countdown_time' = 0
  /\ resume' = "none"
  /\ pc' = "error"

\* except github.RateLimitExceededException: run_timer( session ),
\* entered from loop `from`
RunTimer(from) ==
  /\ sleep_time' \in ResetDeltas
  /\ countdown_time' = sleep_time'
  /\ resume' = from
  /\ pc' = "timer"

\* variant: the pass sleeps and leaves countdown_time as it was
TimerTick_NoDecrement ==
  /\ pc = "timer"
  /\ countdown_time > 0
  /\ countdown_time' = countdown_time
  /\ UNCHANGED <<pc, output_type, exception, idleVars,
                 listVars, prVars, commitVars, issueVars, writeVars, resume,
                 sleep_time>>

\* variant: a pass sleeps one second and takes two off countdown_time
TimerTick_TwoSeconds ==
  /\ pc = "timer"
  /\ countdown_time > 0
  /\ countdown_time' = countdown_time - 2
  /\ UNCHANGED <<pc, output_type, exception, idleVars,
                 listVars, prVars, commitVars, issueVars,
                 writeVars, resume, sleep_time>>

\* timer: one pass of the countdown loop, time.sleep( 1 )
TimerTick ==
  /\ pc = "timer"
  /\ countdown_time > 0
  /\ countdown_time' = countdown_time - 1
  /\ UNCHANGED <<pc, output_type, exception, idleVars,
                 listVars, prVars, commitVars, issueVars,
                 writeVars, resume, sleep_time>>

\* variant: timer returns without looking at countdown_time
TimerDone_Early ==
  /\ pc = "timer"
  /\ pc' = resume
  /\ resume' = "none"
  /\ countdown_time' = 0
  /\ sleep_time' = 0
  /\ UNCHANGED <<output_type, exception, idleVars,
                 listVars, prVars, commitVars, issueVars, writeVars>>

\* timer returns, run_timer returns, the while loop of the caller goes round
TimerDone ==
  /\ pc = "timer"
  /\ ~(countdown_time > 0)
  /\ pc' = resume
  /\ resume' = "none"
  /\ countdown_time' = 0
  /\ sleep_time' = 0
  /\ UNCHANGED <<output_type, exception, idleVars,
                 listVars, prVars, commitVars, issueVars,
                 writeVars>>

\* ------------------------------------------------------ get_paginated_lists
\* the try block completes: both paginated lists are bound, the function
\* returns and write_csv_output calls get_PR_info
GetPaginatedLists ==
  /\ pc = "lists"
  /\ \E prs \in PRLists : pr_list' = prs
  /\ issues_list' = IF output_type = "pr" THEN ClosedIssues ELSE EmptyList
  /\ pc' = "pr"
  /\ UNCHANGED <<output_type, exception, idleVars,
                 prVars, commitVars, issueVars, writeVars,
                 countdown_time, resume, sleep_time>>

\* session.get_repo raises RateLimitExceededException
GetPaginatedListsRateLimited ==
  /\ pc = "lists"
  /\ RunTimer("lists")
  /\ UNCHANGED <<output_type, exception, idleVars,
                 listVars, prVars, commitVars, issueVars,
                 writeVars>>

\* -------------------------------------------------------------- get_PR_info
\* variant: the closed date is appended before the body
PRFragment_DateFirst(cur_pr, otype) ==
  LET n == <<cur_pr.number>> IN
  IF otype = "pr"
    THEN <<Field("pr_num_str", n), Field("pr_author_str", n),
           Field("pr_closed_date_str", n), Field("pr_body_str", n),
           Field("pr_comment_str", n), Field("pr_title_str", n)>>
    ELSE <<Field("pr_num_str", n)>>

\* pr_info_list as built for one pull request
PRFragment(cur_pr, otype) ==
  LET n == <<cur_pr.number>> IN
  IF otype = "pr"
    THEN <<Field("pr_num_str", n), Field("pr_author_str", n),
           Field("pr_body_str", n), Field("pr_closed_date_str", n),
           Field("pr_comment_str", n), Field("pr_title_str", n)>>
    ELSE <<Field("pr_num_str", n)>>

\* last_commit_position = pr_commits.totalCount - 1
LastCommitPosition(cur_pr) == cur_pr.ncommits - 1

\* most_recent_commit after the test of last_commit_position
MostRecentCommit(cur_pr, prev) ==
  IF LastCommitPosition(cur_pr) >= 0
    THEN Commit(cur_pr.number, LastCommitPosition(cur_pr))
    ELSE prev

\* the locals of get_PR_info on entry
PRInit == [index |-> 0, most_recent_commit |-> SentinelRef,
           pr_metalist |-> <<>>, commits_list |-> <<>>]

\* one pass of the try block that raises nothing
PRPass(st, prs, otype) ==
  LET cur_pr == prs[st.index + 1]
      mrc    == MostRecentCommit(cur_pr, st.most_recent_commit) IN
  [index              |-> st.index + 1,
   most_recent_commit |-> mrc,
   pr_metalist        |-> Append(st.pr_metalist, PRFragment(cur_pr, otype)),
   commits_list       |-> Append(st.commits_list, mrc)]

\* the source lines of get_PR_info that call the remote for pull request
\* cur_pr: the item fetch, the lazy user attribute (pr type only), the
\* commit count and the fetch of the last commit (only when there is one)
PRRaiseLines(cur_pr, otype) ==
  {627, 670}
    \cup (IF otype = "pr" THEN {640} ELSE {})
    \cup (IF LastCommitPosition(cur_pr) >= 0 THEN {677} ELSE {})

\* what a pass has done to pr_metalist when the call on `line` raises:
\* the append of line 665 has run for the calls below it
PRMetalistAtRaise(st, prs, otype, line) ==
  IF line > 665
    THEN Append(st.pr_metalist, PRFragment(prs[st.index + 1], otype))
    ELSE st.pr_metalist

\* the locals of get_PR_info as they stand
PRLocals == [index |-> pr_index, most_recent_commit |-> most_recent_commit,
             pr_metalist |-> pr_metalist, commits_list |-> commits_list]

\* one pass of the loop from fetch to index += 1
PRIterate ==
  /\ pc = "pr"
  /\ pr_index < RATE_LIMIT
  /\ pr_index < Len(pr_list)
  /\ LET st == PRPass(PRLocals, pr_list, output_type) IN
       /\ pr_index' = st.index
       /\ most_recent_commit' = st.most_recent_commit
       /\ pr_metalist' = st.pr_metalist
       /\ commits_list' = st.commits_list
  /\ UNCHANGED <<pc, output_type, exception, idleVars,
                 listVars, commitVars, issueVars, writeVars,
                 countdown_time, resume, sleep_time>>

\* a remote call of the pass raises RateLimitExceededException
PRRateLimited ==
  /\ pc = "pr"
  /\ pr_index < RATE_LIMIT
  /\ pr_index < Len(pr_list)
  /\ \E line \in PRRaiseLines(pr_list[pr_index + 1], output_type) :
       /\ line > 665 => Len(pr_metalist) - pr_index < MaxRepeat
       /\ pr_metalist' = PRMetalistAtRaise(PRLocals, pr_list, output_type, line)
  /\ pr_index' = IndexAfterRaise(pr_index)
  /\ RunTimer("pr")
  /\ UNCHANGED <<output_type, exception, idleVars,
                 listVars, most_recent_commit,
                 commits_list, commitVars, issueVars, writeVars>>

\* variant: the IndexError is caught and the loop moves on to the next index
PRIndexError_Skipping ==
  /\ pc = "pr"
  /\ pr_index < RATE_LIMIT
  /\ ~(pr_index < Len(pr_list))
  /\ pr_index' = pr_index + 1
  /\ UNCHANGED <<pc, output_type, exception, idleVars,
                 listVars, most_recent_commit, pr_metalist, commits_list,
                 commitVars, issueVars, writeVars, countdown_time, resume, sleep_time>>

\* pr_list[index] past the end of the collection: IndexError, not caught
PRIndexError ==
  /\ pc = "pr"
  /\ pr_index < RATE_LIMIT
  /\ ~(pr_index < Len(pr_list))
  /\ pc' = "error"
  /\ exception' = "IndexError"
  /\ UNCHANGED <<output_type, idleVars,
                 listVars, prVars, commitVars, issueVars,
                 writeVars, countdown_time, resume, sleep_time>>

\* cur_pr.closed_at is None (the remote returned an open pull request, the
\* list is fetched with state='all'): .strftime raises AttributeError, which
\* is not caught
PRAttributeError ==
  /\ pc = "pr"
  /\ output_type = "pr"
  /\ pr_index < RATE_LIMIT
  /\ pr_index < Len(pr_list)
  /\ pc' = "error"
  /\ exception' = "AttributeError"
  /\ UNCHANGED <<output_type, idleVars,
                 listVars, prVars, commitVars, issueVars,
                 writeVars, countdown_time, resume, sleep_time>>

\* variant: the output file is opened as soon as get_PR_info has returned
PRReturn_Opening ==
  /\ pc = "pr"
  /\ ~(pr_index < RATE_LIMIT)
  /\ pc' = "commit"
  /\ csvfile' = <<[k \in 1..Len(PR_COL_NAMES) |->
                    [f |-> PR_COL_NAMES[k], src |-> <<>>, v |-> 0]]>>
  /\ csvfile_state' = "open"
  /\ UNCHANGED <<output_type, exception, idleVars,
                 listVars, prVars, commitVars, issueVars,
                 aggregation_index, countdown_time, resume, sleep_time>>

\* the loop ends, get_PR_info returns, write_csv_output calls get_commit_info
PRReturn ==
  /\ pc = "pr"
  /\ ~(pr_index < RATE_LIMIT)
  /\ pc' = "commit"
  /\ UNCHANGED <<output_type, exception, idleVars,
                 listVars, prVars, commitVars, issueVars,
                 writeVars, countdown_time, resume, sleep_time>>

\* ---------------------------------------------------------- get_commit_info
\* variant: committer and SHA appended in the other order
CommitFragment_Swapped(cur_commit, otype) ==
  LET c == <<cur_commit.pr, cur_commit.pos>> IN
  <<Field("commit_author", c), Field("commit_message", c)>> \o
  (IF otype = "pr"
     THEN <<Field("commit_date", c)>>
     ELSE <<Field("commit_SHA", c), Field("commit_committer", c),
            Field("file_list", c), Field("commit_patch_text", c),
            Field("commit_adds", c), Field("commit_rms", c),
            Field("quoted_commit_status_str", c),
            Field("commit_changes", c)>>)

\* commit_info_list as built for a commit Record
CommitFragment(cur_commit, otype) ==
  LET c == <<cur_commit.pr, cur_commit.pos>> IN
  <<Field("commit_author", c), Field("commit_message", c)>> \o
  (IF otype = "pr"
     THEN <<Field("commit_date", c)>>
     ELSE <<Field("commit_committer", c), Field("commit_SHA", c),
            Field("file_list", c), Field("commit_patch_text", c),
            Field("commit_adds", c), Field("commit_rms", c),
            Field("quoted_commit_status_str", c),
            Field("commit_changes", c)>>)

\* commit_info_list when the append of line 314 is reached: rebuilt only
\* under `if cur_commit != " =||= "`
CommitInfoList(cur_commit, prev, otype) ==
  IF cur_commit.kind # SENTINEL
    THEN CommitFragment(cur_commit, otype)
    ELSE prev

\* the locals of get_commit_info on entry
CommitInit == [index |-> 0, commit_info_list |-> <<>>,
               commit_info_metalist |-> <<>>]

\* variant: commit_info_list is one list object refilled in place by every
\* pass, so every element appended so far shows the latest content
CommitPass_SharedList(st, commit_list, otype) ==
  LET cur_commit == commit_list[st.index + 1]
      info       == CommitInfoList(cur_commit, st.commit_info_list, otype) IN
  [index                |-> st.index + 1,
   commit_info_list     |-> info,
   commit_info_metalist |->
     [i \in 1..(Len(st.commit_info_metalist) + 1) |-> info]]

\* one pass of the try block that raises nothing
CommitPass(st, commit_list, otype) ==
  LET cur_commit == commit_list[st.index + 1]
      info       == CommitInfoList(cur_commit, st.commit_info_list, otype) IN
  [index                |-> st.index + 1,
   commit_info_list     |-> info,
   commit_info_metalist |-> Append(st.commit_info_metalist, info)]

\* the source lines of get_commit_info that call the remote: the lazy
\* commit attribute, and the file list (commit type only); none for " =||= "
CommitRaiseLines(cur_commit, otype) ==
  IF cur_commit.kind = SENTINEL THEN {}
  ELSE {247} \cup (IF otype = "pr" THEN {} ELSE {281})

\* commit_info_list when the call on `line` raises: the assignment of
\* line 253 has run for the calls below it
CommitInfoListAtRaise(cur_commit, prev, line) ==
  IF line > 253
    THEN LET c == <<cur_commit.pr, cur_commit.pos>> IN
         <<Field("commit_author", c), Field("commit_message", c)>>
    ELSE prev

\* the locals of get_commit_info as they stand
CommitLocals == [index |-> commit_list_index,
                 commit_info_list |-> commit_info_list,
                 commit_info_metalist |-> commit_info_metalist]

\* one pass of the loop from the read of commit_list to the index += 1
CommitIterate ==
  /\ pc = "commit"
  /\ commit_list_index < RATE_LIMIT
  /\ LET st == CommitPass(CommitLocals, commits_list, output_type) IN
       /\ commit_list_index' = st.index
       /\ commit_info_list' = st.commit_info_list
       /\ commit_info_metalist' = st.commit_info_metalist
  /\ UNCHANGED <<pc, output_type, exception, idleVars,
                 listVars, prVars, issueVars, writeVars,
                 countdown_time, resume, sleep_time>>

\* a remote call of the pass raises RateLimitExceededException
CommitRateLimited ==
  /\ pc = "commit"
  /\ commit_list_index < RATE_LIMIT
  /\ LET cur_commit == commits_list[commit_list_index + 1] IN
       \E line \in CommitRaiseLines(cur_commit, output_type) :
         commit_info_list' =
           CommitInfoListAtRaise(cur_commit, commit_info_list, line)
  /\ commit_list_index' = IndexAfterRaise(commit_list_index)
  /\ RunTimer("commit")
  /\ UNCHANGED <<output_type, exception, idleVars,
                 listVars, prVars,
                 commit_info_metalist, issueVars, writeVars>>

\* variant: write_csv_output does not call get_issue_info
CommitReturn_SkippingIssues ==
  /\ pc = "commit"
  /\ ~(commit_list_index < RATE_LIMIT)
  /\ pc' = "open"
  /\ UNCHANGED <<output_type, exception, idleVars,
                 listVars, prVars, commitVars, issueVars,
                 writeVars, countdown_time, resume, sleep_time>>

\* variant: write_csv_output calls get_issue_info for either output type
CommitReturn_AlwaysIssues ==
  /\ pc = "commit"
  /\ ~(commit_list_index < RATE_LIMIT)
  /\ pc' = "issue"
  /\ UNCHANGED <<output_type, exception, idleVars,
                 listVars, prVars, commitVars, issueVars,
                 writeVars, countdown_time, resume, sleep_time>>

\* the loop ends, get_commit_info returns; write_csv_output calls
\* get_issue_info for the pr type, else goes on to open the output file
CommitReturn ==
  /\ pc = "commit"
  /\ ~(commit_list_index < RATE_LIMIT)
  /\ pc' = IF output_type = "pr" THEN "issue" ELSE "open"
  /\ UNCHANGED <<output_type, exception, idleVars,
                 listVars, prVars, commitVars, issueVars,
                 writeVars, countdown_time, resume, sleep_time>>

\* ----------------------------------------------------------- get_issue_info
\* isPR after `if cur_issue.pull_request is not None: isPR = 1`
IsPRAfter(issue, prev) == IF issue.pull_request THEN 1 ELSE prev

\* issue_context_list as built for one issue
IssueFragment(issue, flag) ==
  LET n == <<issue.id>> IN
  <<Field("issue_closed_date", n), Field("issue_author_str", n),
    Field("issue_title_str", n), Field("issue_body_str", n),
    Field("issue_comment_str", n), [f |-> "isPR", src |-> n, v |-> flag]>>

\* the source lines of get_issue_info that call the remote: the item fetch
\* and the lazy user attribute
IssueRaiseLines == {374, 377}

\* one pass of the loop: the issue is fetched (the remote decides what it
\* holds), the fragment built and appended
IssueIterate ==
  /\ pc = "issue"
  /\ issue_index < RATE_LIMIT
  /\ issues_list = ClosedIssues
  /\ \E issue \in IssueAt(issue_index) :
       /\ cur_issue' = issue
       /\ isPR' = IsPRAfter(issue, isPR)
       /\ issue_metalist' =
            Append(issue_metalist, IssueFragment(issue, IsPRAfter(issue, isPR)))
  /\ issue_index' = issue_index + 1
  /\ UNCHANGED <<pc, output_type, exception, idleVars,
                 listVars, prVars, commitVars, writeVars,
                 countdown_time, resume, sleep_time>>

\* a remote call of the pass raises RateLimitExceededException; cur_issue
\* is already bound when the call below line 374 raises
IssueRateLimited ==
  /\ pc = "issue"
  /\ issue_index < RATE_LIMIT
  /\ issues_list = ClosedIssues
  /\ \E line \in IssueRaiseLines :
       IF line > 374
         THEN \E issue \in IssueAt(issue_index) : cur_issue' = issue
         ELSE cur_issue' = cur_issue
  /\ issue_index' = IndexAfterRaise(issue_index)
  /\ RunTimer("issue")
  /\ UNCHANGED <<output_type, exception, idleVars,
                 listVars, prVars, commitVars,
                 isPR, issue_metalist, writeVars>>

\* issue_list[index] past the end of the collection: IndexError, not caught
IssueIndexError ==
  /\ pc = "issue"
  /\ issue_index < RATE_LIMIT
  /\ issues_list = EmptyList \/ IssuesMayEndAt(issue_index)
  /\ pc' = "error"
  /\ exception' = "IndexError"
  /\ UNCHANGED <<output_type, idleVars,
                 listVars, prVars, commitVars, issueVars,
                 writeVars, countdown_time, resume, sleep_time>>

\* the loop ends, get_issue_info returns
IssueReturn ==
  /\ pc = "issue"
  /\ ~(issue_index < RATE_LIMIT)
  /\ pc' = "open"
  /\ UNCHANGED <<output_type, exception, idleVars,
                 listVars, prVars, commitVars, issueVars,
                 writeVars, countdown_time, resume, sleep_time>>

\* --------------------------------------------------------- write_csv_output
\* label_cols
LabelCols(otype) == IF otype = "pr" THEN PR_COL_NAMES ELSE COMMIT_COL_NAMES

\* a column name as a cell of the label row
Label(name) == [f |-> name, src |-> <<>>, v |-> 0]

\* the label row as handed to writer.writerow
LabelRow(otype) == [k \in 1..Len(LabelCols(otype)) |-> Label(LabelCols(otype)[k])]

\* element k of a Python list, k counted from 0
At(list, k) == list[k + 1]

\* output_row of the pr type, in the order of the list literal
PROutputRow(cur_commit, cur_pr, cur_iss) ==
  LET commit_author     == At(cur_commit, 0)
      commit_message    == At(cur_commit, 1)
      pr_num            == At(cur_pr, 0)
      issue_closed_date == At(cur_iss, 0)
      issue_author      == At(cur_iss, 1)
      issue_title       == At(cur_iss, 2)
      issue_body        == At(cur_iss, 3)
      issue_comments    == At(cur_iss, 4)
      isPR_             == At(cur_iss, 5)
      commit_date       == At(cur_commit, 2)
      pr_author         == At(cur_pr, 1)
      pr_body           == At(cur_pr, 2)
      pr_closed_date    == At(cur_pr, 3)
      pr_comments       == At(cur_pr, 4)
      pr_title          == At(cur_pr, 5)
  IN <<pr_num, issue_closed_date, issue_author,
       issue_title, issue_body, pr_closed_date,
       pr_title, pr_body, pr_comments,
       issue_comments, pr_author, commit_author,
       commit_date, commit_message, isPR_>>

\* variant: the row literal lacks commit_changes
CommitOutputRow_Short(cur_commit, cur_pr) ==
  <<At(cur_commit, 0), At(cur_commit, 2), At(cur_pr, 0),
    At(cur_commit, 3), At(cur_commit, 1), At(cur_commit, 4),
    At(cur_commit, 5), At(cur_commit, 6), At(cur_commit, 7),
    At(cur_commit, 8)>>

\* output_row of the commit type, in the order of the list literal
CommitOutputRow(cur_commit, cur_pr) ==
  LET commit_author     == At(cur_commit, 0)
      commit_message    == At(cur_commit, 1)
      pr_num            == At(cur_pr, 0)
      commit_committer  == At(cur_commit, 2)
      commit_SHA        == At(cur_commit, 3)
      commit_file_list  == At(cur_commit, 4)
      commit_patch_text == At(cur_commit, 5)
      commit_adds       == At(cur_commit, 6)
      commit_rms        == At(cur_commit, 7)
      commit_status     == At(cur_commit, 8)
      commit_changes    == At(cur_commit, 9)
  IN <<commit_author, commit_committer, pr_num,
       commit_SHA, commit_message, commit_file_list,
       commit_patch_text, commit_adds, commit_rms,
       commit_status, commit_changes>>

\* every subscript of one pass of the aggregation loop is in range
RowReadable(i, otype) ==
  /\ i < Len(commit_info_metalist)
  /\ i < Len(pr_metalist)
  /\ IF otype = "pr"
       THEN /\ i < Len(issue_metalist)
            /\ Len(At(issue_metalist, i)) > 5
            /\ Len(At(commit_info_metalist, i)) > 2
            /\ Len(At(pr_metalist, i)) > 5
       ELSE /\ Len(At(commit_info_metalist, i)) > 9
            /\ Len(At(pr_metalist, i)) > 0

\* variant: the aggregation loop steps over every other index
NextAggregationIndex_Skipping(i) == i + 2

\* the index of the aggregation loop after a pass
NextAggregationIndex(i) == i + 1

\* the output file is opened (truncated) and the label row written
OpenOutput ==
  /\ pc = "open"
  /\ csvfile' = <<LabelRow(output_type)>>
  /\ csvfile_state' = "open"
  /\ pc' = "write"
  /\ UNCHANGED <<output_type, exception, idleVars,
                 listVars, prVars, commitVars, issueVars,
                 aggregation_index, countdown_time, resume, sleep_time>>

\* one pass of the aggregation loop: a row is built and written
WriteRow ==
  /\ pc = "write"
  /\ aggregation_index < RATE_LIMIT
  /\ RowReadable(aggregation_index, output_type)
  /\ LET cur_commit == At(commit_info_metalist, aggregation_index)
         cur_pr     == At(pr_metalist, aggregation_index)
     IN csvfile' = Append(csvfile,
          IF output_type = "pr"
            THEN PROutputRow(cur_commit, cur_pr,
                             At(issue_metalist, aggregation_index))
            ELSE CommitOutputRow(cur_commit, cur_pr))
  /\ aggregation_index' = NextAggregationIndex(aggregation_index)
  /\ UNCHANGED <<pc, output_type, exception, idleVars,
                 listVars, prVars, commitVars, issueVars,
                 csvfile_state, countdown_time, resume, sleep_time>>

\* a subscript of the pass is out of range: IndexError, not caught; the
\* with block closes the file on the way out
WriteIndexError ==
  /\ pc = "write"
  /\ aggregation_index < RATE_LIMIT
  /\ ~RowReadable(aggregation_index, output_type)
  /\ pc' = "error"
  /\ exception' = "IndexError"
  /\ csvfile_state' = "closed"
  /\ UNCHANGED <<output_type, idleVars,
                 listVars, prVars, commitVars, issueVars,
                 aggregation_index, csvfile, countdown_time, resume, sleep_time>>

\* the aggregation loop ends, the file is closed
WriteDone ==
  /\ pc = "write"
  /\ ~(aggregation_index < RATE_LIMIT)
  /\ pc' = "done"
  /\ csvfile_state' = "closed"
  /\ UNCHANGED <<output_type, exception, idleVars,
                 listVars, prVars, commitVars, issueVars,
                 aggregation_index, csvfile, countdown_time, resume, sleep_time>>

\* ------------------------------------------------------------ specification
Next ==
  \/ GetPaginatedLists
  \/ GetPaginatedListsRateLimited
  \/ PRIterate
  \/ PRRateLimited
  \/ PRIndexError
  \/ PRAttributeError
  \/ PRReturn
  \/ CommitIterate
  \/ CommitRateLimited
  \/ CommitReturn
  \/ IssueIterate
  \/ IssueRateLimited
  \/ IssueIndexError
  \/ IssueReturn
  \/ OpenOutput
  \/ WriteRow
  \/ WriteIndexError
  \/ WriteDone
  \/ TimerTick
  \/ TimerDone

Spec == Init /\ [][Next]_vars

\* ---------------------------------------------------- runs without raises
\* get_PR_info after n passes, none of which raised
RECURSIVE PRRun(_, _, _)
PRRun(n, prs, otype) ==
  IF n = 0 THEN PRInit ELSE PRPass(PRRun(n - 1, prs, otype), prs, otype)

\* get_commit_info after n passes, none of which raised
RECURSIVE CommitRun(_, _, _)
CommitRun(n, commit_list, otype) ==
  IF n = 0 THEN CommitInit
  ELSE CommitPass(CommitRun(n - 1, commit_list, otype), commit_list, otype)

\* an extractor has returned to write_csv_output
PRReturned     == pr_index >= RATE_LIMIT /\ pc # "pr"
CommitReturned == commit_list_index >= RATE_LIMIT /\ pc # "commit"
IssueReturned  == issue_index >= RATE_LIMIT /\ pc # "issue"

\* the data rows handed to the writer so far
DataRows == IF csvfile = <<>> THEN <<>> ELSE Tail(csvfile)

\* columns of a fragment of get_commit_info in the active schema
CommitWidth(otype) == IF otype = "pr" THEN 3 ELSE 10

\* the fields get_commit_info reads from a commit Record
CommitFieldNames ==
  {"commit_author", "commit_message", "commit_date", "commit_committer",
   "commit_SHA", "file_list", "commit_patch_text", "commit_adds",
   "commit_rms", "quoted_commit_status_str", "commit_changes"}

\* the field of a fragment that a column name of either schema names
ColumnField(name) ==
  CASE name = "PR_Number"         -> "pr_num_str"
    [] name = "Issue_Closed_Date" -> "issue_closed_date"
    [] name = "Issue_Author"      -> "issue_author_str"
    [] name = "Issue_Title"       -> "issue_title_str"
    [] name = "Issue_Body"        -> "issue_body_str"
    [] name = "PR_Closed_Date"    -> "pr_closed_date_str"
    [] name = "PR_Author"         -> "pr_author_str"
    [] name = "PR_Title"          -> "pr_title_str"
    [] name = "PR_Body"           -> "pr_body_str"
    [] name = "PR_Comments"       -> "pr_comment_str"
    [] name = "Issue_Comments"    -> "issue_comment_str"
    [] name = "Commit_Author"     -> "commit_author"
    [] name = "Commit_Date"       -> "commit_date"
    [] name = "Commit_Message"    -> "commit_message"
    [] name = "isPR"              -> "isPR"
    [] name = "Author_Login"      -> "commit_author"
    [] name = "Committer_login"   -> "commit_committer"
    [] name = "SHA"               -> "commit_SHA"
    [] name = "File_name"         -> "file_list"
    [] name = "Patch_text"        -> "commit_patch_text"
    [] name = "Additions"         -> "commit_adds"
    [] name = "Deletions"         -> "commit_rms"
    [] name = "Status"            -> "quoted_commit_status_str"
    [] name = "Changes"           -> "commit_changes"

\* -------------------------------------------------------------------- C1
\* C1 (backoff idempotence): once an extractor has returned, the sequences
\* it returned are those of the run in which no call raises: get_PR_info
\* over the same pull requests, get_commit_info over the commit references
\* of that run, get_issue_info with one fragment per index, in index order.
C1_BackoffIdempotent ==
  LET ref == PRRun(RATE_LIMIT, pr_list, output_type) IN
  /\ PRReturned =>
       /\ pr_metalist = ref.pr_metalist
       /\ commits_list = ref.commits_list
  /\ CommitReturned =>
       commit_info_metalist =
         CommitRun(RATE_LIMIT, ref.commits_list, output_type).commit_info_metalist
  /\ IssueReturned =>
       /\ Len(issue_metalist) = RATE_LIMIT
       /\ \A i \in 1..Len(issue_metalist) : issue_metalist[i][1].src = <<i>>

\* -------------------------------------------------------------------- C2
\* C2 (cursor kept across a retry): a step into the backoff wait, a step of
\* the wait and the step out of it leave all three loop indices as they
\* were, the wait hands control back to the loop that raised, and an index
\* only ever grows by 1, in a pass of its own loop that does not raise.
C2_CursorKept ==
  [][ /\ (pc' = "timer" \/ pc = "timer") =>
           /\ pr_index' = pr_index
           /\ commit_list_index' = commit_list_index
           /\ issue_index' = issue_index
      /\ (pc # "timer" /\ pc' = "timer") => resume' = pc
      /\ (pc = "timer" /\ pc' # "timer") => pc' = resume
      /\ pr_index' # pr_index =>
           pr_index' = pr_index + 1 /\ pc = "pr" /\ pc' = "pr"
      /\ commit_list_index' # commit_list_index =>
           /\ commit_list_index' = commit_list_index + 1
           /\ pc = "commit" /\ pc' = "commit"
      /\ issue_index' # issue_index =>
           issue_index' = issue_index + 1 /\ pc = "issue" /\ pc' = "issue"
    ]_vars

\* a pass for an index above 0 has raised after its append and the wait is
\* over: the loop is about to fetch the same index again
C2_Witness ==
  /\ pc = "pr"
  /\ pr_index > 0
  /\ Len(pr_metalist) = pr_index + 1

\* -------------------------------------------------------------------- C3
\* C3 (positional alignment): in every data row, each field read from a
\* commit Record was read from the last commit of the pull request whose
\* number stands in the same row.
C3_PositionalAlignment ==
  \A i \in 1..Len(DataRows) :
    LET row == DataRows[i] IN
    \A k \in 1..Len(row) : \A m \in 1..Len(row) :
      (row[k].f = "pr_num_str" /\ row[m].f \in CommitFieldNames) =>
        LET n == row[k].src[1] IN
        row[m].src = <<n, pr_list[n].ncommits - 1>>

\* -------------------------------------------------------------------- C4
\* C4 (zero-commit law): the fragment get_commit_info appended for a
\* reference that is the placeholder " =||= " has " =||= " in every column
\* of the active schema.
C4_ZeroCommitLaw ==
  \A i \in 1..Len(commit_info_metalist) :
    commits_list[i].kind = SENTINEL =>
      commit_info_metalist[i] =
        [k \in 1..CommitWidth(output_type) |-> SentinelField]

\* -------------------------------------------------------------------- C5
\* C5 (isPR per item): the isPR field of the fragment appended for an issue
\* is 1 exactly when that issue carries a pull-request link.
C5_IsPRPerItem ==
  (issue_index > 0 /\ cur_issue.id = issue_index) =>
    issue_metalist[issue_index][6].v =
      (IF cur_issue.pull_request THEN 1 ELSE 0)

\* -------------------------------------------------------------------- C6
\* C6 (row count): when write_csv_output has completed, the writer was
\* handed the label row and then exactly RATE_LIMIT data rows.
C6_RowCount ==
  pc = "done" =>
    /\ Len(csvfile) = RATE_LIMIT + 1
    /\ csvfile[1] = LabelRow(output_type)
    /\ \A i \in 2..Len(csvfile) : csvfile[i] # LabelRow(output_type)

\* a run that met a rate limit in get_PR_info has completed
C6_Witness ==
  /\ pc = "done"
  /\ Len(pr_metalist) > RATE_LIMIT
  /\ Len(csvfile) = RATE_LIMIT + 1

\* -------------------------------------------------------------------- C7
\* C7 (fragment count): every sequence an extractor has returned has
\* exactly RATE_LIMIT elements.
C7_FragmentCount ==
  /\ PRReturned =>
       Len(pr_metalist) = RATE_LIMIT /\ Len(commits_list) = RATE_LIMIT
  /\ CommitReturned => Len(commit_info_metalist) = RATE_LIMIT
  /\ IssueReturned => Len(issue_metalist) = RATE_LIMIT

\* -------------------------------------------------------------------- C8
\* C8 (header/value agreement, pr type): every data row has, at each of
\* its 15 positions, the field the column name at that position names.
C8_PRHeaderAgreement ==
  output_type = "pr" =>
    \A i \in 1..Len(DataRows) : \A k \in 1..Len(PR_COL_NAMES) :
      /\ k <= Len(DataRows[i])
      /\ DataRows[i][k].f = ColumnField(PR_COL_NAMES[k])

\* -------------------------------------------------------------------- C9
\* C9 (header/value agreement, commit type): every data row has, at each
\* of its 11 positions, the field the column name at that position names.
C9_CommitHeaderAgreement ==
  output_type = "commit" =>
    \A i \in 1..Len(DataRows) : \A k \in 1..Len(COMMIT_COL_NAMES) :
      /\ k <= Len(DataRows[i])
      /\ DataRows[i][k].f = ColumnField(COMMIT_COL_NAMES[k])

\* all rows of a commit-type run are written
C9_Witness ==
  /\ output_type = "commit"
  /\ Len(DataRows) = RATE_LIMIT

\* ------------------------------------------------------------------- C10
\* C10 (schema width): every row handed to the writer, the label row
\* included, has 11 fields in the commit type and 15 in the pr type.
C10_SchemaWidth ==
  \A i \in 1..Len(csvfile) :
    Len(csvfile[i]) = (IF output_type = "pr" THEN 15 ELSE 11)

\* the label row and all data rows of a pr-type run are written
C10_Witness ==
  /\ output_type = "pr"
  /\ Len(csvfile) = RATE_LIMIT + 1

\* ------------------------------------------------------------------- C11
\* a source of the row-joining loop holds fewer than RATE_LIMIT items: the
\* pull requests of the repository, or the closed issues read so far when
\* get_issue_info has stopped
ShortSource ==
  \/ pc # "lists" /\ Len(pr_list) < RATE_LIMIT
  \/ /\ output_type = "pr"
     /\ CommitReturned
     /\ Len(issue_metalist) < RATE_LIMIT

\* C11 (misaligned-extraction fail-safe): a run whose source sequence is
\* shorter than RATE_LIMIT does not end with an IndexError (it is to end
\* with a "misaligned extraction" error, which no line of the code raises).
C11_MisalignedFailSafe ==
  (pc = "error" /\ ShortSource) =>
    exception # "IndexError"

\* ------------------------------------------------------------------- C12
\* the functions whose remote calls stand inside a try block
RateLimitedFunctions == {"lists", "pr", "commit", "issue"}

\* C12 (RateLimitExceeded is contained): a rate-limit exception is raised
\* only inside get_paginated_lists or an extractor loop and leads into the
\* wait; the wait ends in the function that raised; the run never ends
\* with this exception, neither in the step that raises nor in the wait.
C12_RateLimitContained ==
  [][ /\ (pc # "timer" /\ pc' = "timer") =>
           /\ pc \in RateLimitedFunctions
           /\ resume' = pc
      /\ pc = "timer" =>
           /\ resume \in RateLimitedFunctions
           /\ pc' \in {"timer", resume}
      /\ (pc' = "timer" \/ pc = "timer") => exception' = "none"
      /\ pc' = "error" => exception' \in {"IndexError", "AttributeError"}
    ]_vars

\* get_commit_info is back in its loop after the call of line 281 raised:
\* commit_info_list holds the two fields built before the raise
C12_Witness ==
  /\ pc = "commit"
  /\ output_type = "commit"
  /\ Len(commit_info_list) = 2

\* ------------------------------------------------------------------- C13
\* C13 (only rate limiting is recovered locally): an index out of range in
\* get_PR_info or in the aggregation loop ends the run in that step with
\* the IndexError; a step that ends the run with any exception writes no
\* row, moves no index and starts no wait; and no step follows it.
C13_OnlyRateLimitRecovered ==
  [][ /\ pc # "error"
      /\ (pc = "pr" /\ pr_index < RATE_LIMIT /\ ~(pr_index < Len(pr_list))) =>
           (pc' = "error" /\ exception' = "IndexError")
      /\ (pc = "issue" /\ issue_index < RATE_LIMIT
             /\ issues_list = EmptyList) =>
           (pc' = "error" /\ exception' = "IndexError")
      /\ (pc = "write" /\ aggregation_index < RATE_LIMIT
             /\ ~RowReadable(aggregation_index, output_type)) =>
           (pc' = "error" /\ exception' = "IndexError")
      /\ exception' # "none" =>
           /\ pc' = "error"
           /\ csvfile' = csvfile
           /\ pr_index' = pr_index
           /\ commit_list_index' = commit_list_index
           /\ issue_index' = issue_index
           /\ aggregation_index' = aggregation_index
           /\ pr_metalist' = pr_metalist
           /\ issue_metalist' = issue_metalist
    ]_vars

\* a pr-type run has ended at an open pull request after extracting others
C13_Witness ==
  /\ pc = "error"
  /\ exception = "AttributeError"
  /\ pr_index > 0

\* ------------------------------------------------------------------- C14
\* the wait in whole seconds for a reset time `delta` seconds from now
ClampedWait(delta) == IF delta < 0 THEN 0 ELSE delta

\* the calls of time.sleep( 1 ) that timer( countdown_time ) makes
RECURSIVE Sleeps(_)
Sleeps(c) == IF c > 0 THEN 1 + Sleeps(c - 1) ELSE 0

\* C14 (backoff wait): the wait starts from reset time minus now; the
\* sleeps still to come are that value clamped to zero; each step inside
\* the wait is one sleep of one second; and the retry starts only when no
\* sleep is left, at once when the reset time is not in the future.
C14_BackoffWait ==
  [][ /\ (pc # "timer" /\ pc' = "timer") => countdown_time' \in ResetDeltas
      /\ pc' = "timer" => Sleeps(countdown_time') = ClampedWait(countdown_time')
      /\ (pc = "timer" /\ pc' = "timer") =>
           /\ countdown_time > 0
           /\ Sleeps(countdown_time') = Sleeps(countdown_time) - 1
      /\ (pc = "timer" /\ pc' # "timer") =>
           /\ Sleeps(countdown_time) = 0
           /\ pc' = resume
    ]_vars

\* the reset time is already in the past when the wait starts
C14_Witness ==
  /\ pc = "timer"
  /\ countdown_time < 0

\* ------------------------------------------------------------------- C15
\* the program runs on while a step is possible, and the quota resets in
\* the end: a pass that can be repeated without end is not rate limited
\* every time
QuotaResets ==
  /\ SF_vars(GetPaginatedLists)
  /\ SF_vars(PRIterate)
  /\ SF_vars(CommitIterate)
  /\ SF_vars(IssueIterate)

LiveSpec == Spec /\ WF_vars(Next) /\ QuotaResets

\* every extractor loop the output type runs has returned with RATE_LIMIT
\* indices processed, and the output file is about to be opened
ExtractionComplete ==
  /\ pc = "open"
  /\ PRReturned /\ Len(commits_list) = RATE_LIMIT
  /\ CommitReturned /\ Len(commit_info_metalist) = RATE_LIMIT
  /\ output_type = "pr" =>
       (IssueReturned /\ Len(issue_metalist) = RATE_LIMIT)

\* C15 (unbounded retry, eventual completion): when the quota resets in
\* the end, every run comes to the point where list retrieval and every
\* extractor loop have completed with RATE_LIMIT indices processed, however
\* often it was rate limited, unless it ends with an exception that is not
\* a rate limit.
C15_EventualCompletion == <>(ExtractionComplete \/ exception # "none")

\* all three extractors of a pr-type run have returned, get_PR_info after
\* a rate limit
C15_Witness ==
  /\ pc = "open"
  /\ output_type = "pr"
  /\ Len(pr_metalist) > RATE_LIMIT

\* ------------------------------------------------------------------- C16
\* get_commit_info has been called
CommitStarted ==
  \/ pc = "commit"
  \/ resume = "commit"
  \/ commit_list_index > 0
  \/ commit_info_list # <<>>

\* the with block of write_csv_output has been entered
OutputStarted ==
  \/ pc \in {"write", "done"}
  \/ csvfile # <<>>
  \/ aggregation_index > 0

\* C16 (stage ordering): get_PR_info has returned, with RATE_LIMIT commit
\* references, before get_commit_info starts; and get_PR_info,
\* get_commit_info and, for the pr type, get_issue_info have returned
\* before the output file is written to.
C16_StageOrdering ==
  /\ CommitStarted => (PRReturned /\ Len(commits_list) = RATE_LIMIT)
  /\ OutputStarted =>
       /\ PRReturned
       /\ CommitReturned
       /\ output_type = "pr" => IssueReturned

\* the first data row of a pr-type run is written
C16_Witness ==
  /\ output_type = "pr"
  /\ Len(csvfile) = 2

\* --------------------------------------------------------------------- text
\* a Python str is the sequence of its characters; SENTINEL as such a str
SentinelChars == <<" ", "=", "|", "|", "=", " ">>

\* the characters a body, a message or a title is made of
TextChars == {"a", "\n"}

\* the texts of at most n characters
TextsUpTo(n) == UNION { [1..len -> TextChars] : len \in 0..n }

\* s.lstrip( chars ) and s.rstrip( chars )
RECURSIVE LStrip(_, _)
LStrip(s, chars) ==
  IF s # <<>> /\ Head(s) \in chars THEN LStrip(Tail(s), chars) ELSE s

RECURSIVE RStrip(_, _)
RStrip(s, chars) ==
  IF s # <<>> /\ s[Len(s)] \in chars
    THEN RStrip(SubSeq(s, 1, Len(s) - 1), chars)
    ELSE s

\* s.strip( chars ): leading and trailing characters of `chars` removed
Strip(s, chars) == RStrip(LStrip(s, chars), chars)

\* "\"" + s + "\""
Quoted(s) == <<"\"">> \o s \o <<"\"">>

\* str( n ) for an int n >= 0
DecimalDigits == <<"0", "1", "2", "3", "4", "5", "6", "7", "8", "9">>

RECURSIVE DecimalStr(_)
DecimalStr(n) ==
  IF n < 10 THEN <<DecimalDigits[n + 1]>>
  ELSE DecimalStr(n \div 10) \o <<DecimalDigits[(n % 10) + 1]>>

\* variant: a body that is empty once stripped is replaced by " =||= "
BodyStr_Defaulting(body) ==
  IF Strip(body, {"\n"}) = <<>> THEN SentinelChars
  ELSE Quoted(Strip(body, {"\n"}))

\* the body field: str( body ).strip( '\n' ) in quotes
BodyStr(body) == Quoted(Strip(body, {"\n"}))

\* variant: the count is replaced when its string ends in '0'
CommentStr_LastDigit(comments) ==
  LET comment_str == DecimalStr(comments) IN
  IF comment_str[Len(comment_str)] = "0" THEN SentinelChars ELSE comment_str

\* the comment field: str( comments ), replaced by " =||= " when it is '0'
CommentStr(comments) ==
  LET comment_str == DecimalStr(comments) IN
  IF comment_str = <<"0">> THEN SentinelChars ELSE comment_str

\* the Records whose text attributes are read: a pull request, an issue
\* (login, name and the formatted dates are one fixed text each), and the
\* last commit of a pull request
TextRecords ==
  { [kind |-> k, user |-> <<"a">>, body |-> b, closed_at |-> <<"d">>,
     comments |-> c, title |-> t] :
      k \in {"pr", "issue"}, b \in TextsUpTo(MaxText), c \in 0..MaxComments,
      t \in TextsUpTo(1) }
  \cup
  { [kind |-> "commit", author |-> <<"a">>, message |-> m, date |-> <<"d">>] :
      m \in TextsUpTo(MaxText) }

\* the str elements of pr_info_list, after pr_num_str
PRTextFields(cur_pr) ==
  <<cur_pr.user, BodyStr(cur_pr.body), cur_pr.closed_at,
    CommentStr(cur_pr.comments), cur_pr.title>>

\* the str elements of issue_context_list, before isPR
IssueTextFields(issue) ==
  <<issue.closed_at, issue.user, issue.title, BodyStr(issue.body),
    CommentStr(issue.comments)>>

\* commit_info_list of the pr type
CommitTextFields(cur_commit) ==
  <<cur_commit.author, Quoted(cur_commit.message), cur_commit.date>>

\* a pass of an extractor of a pr-type run is about to read a Record
TextInit ==
  /\ pc = "text"
  /\ output_type = "pr"
  /\ ExtractionInit
  /\ AuthIdle
  /\ FileIdle
  /\ ParserIdle
  /\ cur_record \in TextRecords
  /\ info_list = <<>>

\* get_PR_info builds the str fields of a pull request
PRTextPass ==
  /\ pc = "text"
  /\ cur_record.kind = "pr"
  /\ info_list' = PRTextFields(cur_record)
  /\ pc' = "text_done"
  /\ UNCHANGED <<output_type, authVars, cur_record, commit_totals,
                 parserVars, extractionVars>>

\* get_issue_info builds the str fields of an issue
IssueTextPass ==
  /\ pc = "text"
  /\ cur_record.kind = "issue"
  /\ info_list' = IssueTextFields(cur_record)
  /\ pc' = "text_done"
  /\ UNCHANGED <<output_type, authVars, cur_record, commit_totals,
                 parserVars, extractionVars>>

\* get_commit_info builds the fields of a commit
CommitTextPass ==
  /\ pc = "text"
  /\ cur_record.kind = "commit"
  /\ info_list' = CommitTextFields(cur_record)
  /\ pc' = "text_done"
  /\ UNCHANGED <<output_type, authVars, cur_record, commit_totals,
                 parserVars, extractionVars>>

TextNext ==
  \/ PRTextPass
  \/ IssueTextPass
  \/ CommitTextPass

TextSpec == TextInit /\ [][TextNext]_vars

\* the position of the comment field and of the body field in info_list;
\* 0 where the Record has none
CommentPosition(kind) ==
  CASE kind = "pr" -> 4 [] kind = "issue" -> 5 [] OTHER -> 0

BodyPosition(kind) ==
  CASE kind = "pr" -> 2 [] kind = "issue" -> 4 [] OTHER -> 0

\* int( s ) for a str of decimal digits
RECURSIVE DecimalValue(_)
DecimalValue(s) ==
  IF s = <<>> THEN 0
  ELSE 10 * DecimalValue(SubSeq(s, 1, Len(s) - 1))
       + (CHOOSE d \in 0..9 : DecimalDigits[d + 1] = s[Len(s)])

\* ------------------------------------------------------------------- C17
\* C17 (comment-count sentinel law): the comment field built for a pull
\* request or an issue is " =||= " when the comment count is 0, and for
\* every other count it is the decimal string of the count, which reads
\* back as the count.
C17_CommentSentinelLaw ==
  (pc = "text_done" /\ CommentPosition(cur_record.kind) > 0) =>
    LET field == info_list[CommentPosition(cur_record.kind)]
        count == cur_record.comments IN
    /\ count = 0 => field = SentinelChars
    /\ count # 0 =>
         /\ field = DecimalStr(count)
         /\ \A k \in 1..Len(field) :
              \E d \in 1..10 : DecimalDigits[d] = field[k]
         /\ DecimalValue(field) = count

\* the fields of an issue with 10 comments are built
C17_Witness ==
  /\ pc = "text_done"
  /\ cur_record.kind = "issue"
  /\ cur_record.comments = 10

\* ------------------------------------------------------------------- C18
\* a text with every newline character taken out
WithoutNewlines(s) == SelectSeq(s, LAMBDA ch : ch # "\n")

\* C18 (text-normalization law): the body field built for a pull request
\* or an issue is the body without any of its newline characters, between
\* two double-quote characters.
C18_TextNormalization ==
  (pc = "text_done" /\ BodyPosition(cur_record.kind) > 0) =>
    info_list[BodyPosition(cur_record.kind)] =
      Quoted(WithoutNewlines(cur_record.body))

Username == <<"u">>
Token == <<"t">>

\* str.strip( ) without argument removes whitespace
Whitespace == {" ", "\n", "\t"}

\* the lines readlines( ) can return: blank ones, and the username and the
\* token, each plain or with spaces around it
BlankLines == { <<"\n">>, <<" ", "\n">> }
UserLines  == { Username \o <<"\n">>, <<" ">> \o Username \o <<" ", "\n">> }
TokenLines == { Token \o <<"\n">>, <<" ">> \o Token \o <<" ", "\n">> }

\* the auth files of at most MaxLines lines in the documented format: the
\* lines that are not blank are the username, then the token
AuthFiles ==
  { f \in UNION { [1..n -> BlankLines \cup UserLines \cup TokenLines] :
                    n \in 2..MaxLines } :
      LET content == SelectSeq(f, LAMBDA line : line \notin BlankLines) IN
      /\ Len(content) = 2
      /\ content[1] \in UserLines
      /\ content[2] \in TokenLines }

\* main() has read the command line and calls read_user_info
AuthInit ==
  /\ pc = "auth"
  /\ output_type \in {"commit", "pr"}
  /\ ExtractionInit
  /\ TextIdle
  /\ FileIdle
  /\ ParserIdle
  /\ userinfo_list \in AuthFiles
  /\ value_index = 0
  /\ parsed_userinfo_list = <<>>
  /\ login_or_token = <<>>

\* one pass of the for loop of read_user_info
ReadUserInfoLine ==
  /\ pc = "auth"
  /\ value_index < Len(userinfo_list)
  /\ LET value                  == userinfo_list[value_index + 1]
         newLine_stripped_value == Strip(value, {"\n"})
         space_stripped_value   == Strip(newLine_stripped_value, Whitespace)
     IN parsed_userinfo_list' =
          IF Len(space_stripped_value) > 0
            THEN Append(parsed_userinfo_list, space_stripped_value)
            ELSE parsed_userinfo_list
  /\ value_index' = value_index + 1
  /\ UNCHANGED <<pc, output_type, userinfo_list, login_or_token, textVars,
                 commit_totals, parserVars, extractionVars>>

\* the index of userauth_list that main passes to github.Github( )
CredentialIndex == 0

\* read_user_info returns and main creates the session
Authenticate ==
  /\ pc = "auth"
  /\ ~(value_index < Len(userinfo_list))
  /\ CredentialIndex < Len(parsed_userinfo_list)
  /\ login_or_token' = At(parsed_userinfo_list, CredentialIndex)
  /\ pc' = "authenticated"
  /\ UNCHANGED <<output_type, userinfo_list, value_index,
                 parsed_userinfo_list, textVars, commit_totals,
                 parserVars, extractionVars>>

AuthNext ==
  \/ ReadUserInfoLine
  \/ Authenticate

AuthSpec == AuthInit /\ [][AuthNext]_vars

\* ------------------------------------------------------------------- C19
\* C19 (credential selection): for an auth file whose lines that are not
\* blank are the username and then the token, the session is created with
\* the token and not with the username, wherever the blank lines stand.
C19_CredentialSelection ==
  pc = "authenticated" =>
    /\ login_or_token = Token
    /\ login_or_token # Username

\* ------------------------------------------------------------------- C21
\* C21 (commit reference selection): the reference appended for pull
\* request i is the last commit of that pull request's own commit collection
\* when the collection has at least one item, and the placeholder " =||= "
\* when it has none, whatever the earlier pull requests had.
C21_CommitReferenceSelection ==
  \A i \in 1..Len(commits_list) :
    commits_list[i] = IF pr_list[i].ncommits > 0
                        THEN Commit(pr_list[i].number,
                                    pr_list[i].ncommits - 1)
                        ELSE SentinelRef

\* ------------------------------------------------------------------- C23
\* the variables get_PR_info puts into pr_info_list, in the order of the
\* list literals of lines 634 and 655-661
PRFieldNames(otype) ==
  IF otype = "pr"
    THEN <<"pr_num_str", "pr_author_str", "pr_body_str",
           "pr_closed_date_str", "pr_comment_str", "pr_title_str">>
    ELSE <<"pr_num_str">>

\* C23 (PR fragment shape): every fragment get_PR_info appended has the
\* number of its pull request as first field; it has exactly 1 field in
\* "commit" mode and exactly 6 fields in "pr" mode, in the order number,
\* author login, body, closed date, comment count, title, all read from the
\* same pull request.
C23_PRFragmentShape ==
  \A i \in 1..Len(pr_metalist) :
    LET frag == pr_metalist[i] IN
    /\ Len(frag) = (IF output_type = "pr" THEN 6 ELSE 1)
    /\ frag[1].f = "pr_num_str"
    /\ frag[1].src \in { <<pr_list[n].number>> : n \in 1..Len(pr_list) }
    /\ \A k \in 1..Len(frag) :
         /\ frag[k].f = PRFieldNames(output_type)[k]
         /\ frag[k].src = frag[1].src

\* get_PR_info has returned RATE_LIMIT six-field fragments in "pr" mode,
\* one of them appended by a pass that was rate limited after its append
C23_Witness ==
  /\ output_type = "pr"
  /\ pc = "commit"
  /\ Len(pr_metalist) > RATE_LIMIT

\* ------------------------------------------------------------------- C24
\* get_issue_info is running: in its loop, or in the wait its except
\* clause entered
InIssueInfo == pc = "issue" \/ (pc = "timer" /\ resume = "issue")

\* write_csv_output is past the call of get_issue_info, or main has ended
PastExtraction == pc \in {"open", "write", "done", "error"}

\* C24 (issue extraction is mode-gated): in "commit" mode the issue
\* collection is never requested and no issue is fetched (issues_list stays
\* the empty list, get_issue_info never runs); in "pr" mode get_issue_info
\* is called exactly once per run: the only call is the one that follows
\* the return of get_commit_info, nothing of get_issue_info has run before
\* it, control never comes back to the call once it was made, and the
\* output file is opened only after get_issue_info returned.
C24_IssueModeGate ==
  /\ [](output_type = "commit" =>
          /\ issues_list = EmptyList
          /\ ~InIssueInfo
          /\ issue_index = 0
          /\ cur_issue = NoIssue
          /\ issue_metalist = <<>>)
  /\ []((output_type = "pr" /\ pc \in {"open", "write", "done"}) =>
          IssueReturned)
  /\ [][ /\ (~InIssueInfo /\ InIssueInfo') =>
              /\ output_type = "pr"
              /\ pc = "commit" /\ CommitReturned'
              /\ pc' = "issue"
              /\ issue_index = 0 /\ issue_metalist = <<>>
              /\ cur_issue = NoIssue
         /\ InIssueInfo => (InIssueInfo' \/ PastExtraction')
         /\ PastExtraction => PastExtraction' ]_vars

\* a "commit" run has written its file without running get_issue_info
C24_Witness ==
  /\ output_type = "commit"
  /\ pc = "done"
  /\ Len(csvfile) = RATE_LIMIT + 1
  /\ issue_metalist = <<>>

\* ------------------------------------------------------------------- C25
\* every element of list `before` stands unchanged at its index in `after`
Preserved(before, after) ==
  /\ Len(after) >= Len(before)
  /\ \A i \in 1..Len(before) : after[i] = before[i]

\* C25 (no mutation after creation): a fragment appended at an index of the
\* output sequence of get_PR_info (pr_metalist, commits_list),
\* get_commit_info or get_issue_info is left as it is by every later step:
\* passes for higher indices, passes that raise, waits and retries.
C25_NoMutationAfterCreation ==
  [][ /\ Preserved(pr_metalist, pr_metalist')
      /\ Preserved(commits_list, commits_list')
      /\ Preserved(commit_info_metalist, commit_info_metalist')
      /\ Preserved(issue_metalist, issue_metalist') ]_vars

\* all three extractors have returned after a retried pass of get_PR_info,
\* with different fragments at the first and the last index
C25_Witness ==
  /\ pc = "open"
  /\ output_type = "pr"
  /\ Len(pr_metalist) > RATE_LIMIT
  /\ Len(issue_metalist) = RATE_LIMIT
  /\ commit_info_metalist[1] # <<>>
  /\ commit_info_metalist[1] # commit_info_metalist[RATE_LIMIT]

\* ------------------------------------------------------------------- C27
\* C27 (commit fragment shape): every element get_commit_info appended has
\* exactly 3 fields in "pr" mode and exactly 10 fields in "commit" mode,
\* also when the reference at index 0 is the placeholder " =||= ", so that
\* every positional read of cur_commit in write_csv_output is in range.
C27_CommitFragmentShape ==
  \A i \in 1..Len(commit_info_metalist) :
    Len(commit_info_metalist[i]) = CommitWidth(output_type)

\* ------------------------------------------------------------------- C28
\* every extractor write_csv_output calls for the output type has returned
ExtractorsReturned ==
  /\ PRReturned
  /\ CommitReturned
  /\ output_type = "pr" => IssueReturned

\* the file was closed with the label row and fewer than RATE_LIMIT rows
PartiallyWritten ==
  /\ csvfile_state = "closed"
  /\ Len(csvfile) < RATE_LIMIT + 1

\* C28 (output file is touched last): the output file is opened (and so
\* truncated) only after every extractor has returned; a run that waits or
\* has failed before that point has left the file untouched; and the file
\* is left with the label row and fewer than RATE_LIMIT rows only by an
\* IndexError raised by a subscript of the aggregation loop.
C28_OutputTouchedLast ==
  /\ csvfile_state # "untouched" => ExtractorsReturned
  /\ csvfile_state = "untouched" => (csvfile = <<>> /\ aggregation_index = 0)
  /\ (pc = "timer" \/ ~ExtractorsReturned) => csvfile_state = "untouched"
  /\ PartiallyWritten =>
       /\ pc = "error"
       /\ exception = "IndexError"
       /\ aggregation_index < RATE_LIMIT
       /\ ~RowReadable(aggregation_index, output_type)
       /\ Len(csvfile) = aggregation_index + 1

\* the aggregation loop failed on its first pass: the file holds the label
\* row only
C28_Witness ==
  /\ PartiallyWritten
  /\ Len(csvfile) = 1
  /\ pc = "error"

\* -------------------------------------------------------------------- timer
\* the lists and the output of write_csv_output before anything was fetched
DataInit ==
  /\ pr_list = <<>>
  /\ issues_list = EmptyList
  /\ pr_index = 0
  /\ most_recent_commit = SentinelRef
  /\ pr_metalist = <<>>
  /\ commits_list = <<>>
  /\ commit_list_index = 0
  /\ commit_info_list = <<>>
  /\ commit_info_metalist = <<>>
  /\ issue_index = 0
  /\ isPR = 0
  /\ cur_issue = NoIssue
  /\ issue_metalist = <<>>
  /\ aggregation_index = 0
  /\ csvfile = <<>>
  /\ csvfile_state = "untouched"
  /\ exception = "none"

\* run_timer has been called by the except clause of get_paginated_lists,
\* get_limit_info has returned reset time minus now, and timer is entered
TimerInit ==
  /\ pc = "timer"
  /\ output_type \in {"commit", "pr"}
  /\ resume = "lists"
  /\ sleep_time \in (0 - MaxCountdown)..MaxCountdown
  /\ countdown_time = sleep_time
  /\ DataInit
  /\ AuthIdle
  /\ TextIdle
  /\ FileIdle
  /\ ParserIdle

TimerNext ==
  \/ TimerTick
  \/ TimerDone

TimerSpec == TimerInit /\ [][TimerNext]_vars

\* time.sleep( 1 ) returns and the interpreter goes on: a pass of timer
\* that can be taken is taken
TimerLiveSpec == TimerSpec /\ WF_vars(TimerNext)

\* the calls of time.sleep( 1 ) made since timer was entered: each pass of
\* the loop makes one and takes one off countdown_time
SleepsDone == sleep_time - countdown_time

\* ------------------------------------------------------------------- C26
\* C26 (backoff sleep runs to completion): timer( c ) returns for every
\* integer c; it makes exactly max( 0, c ) sleeps of one second, with
\* countdown_time going down by exactly 1 in each pass; and between the
\* entry into the wait and the retry nothing else happens: no list, no
\* fragment, no index and no output row changes.
C26_BackoffRunsToCompletion ==
  /\ <>(pc # "timer")
  /\ [](pc = "timer" =>
          /\ SleepsDone >= 0
          /\ SleepsDone <= ClampedWait(sleep_time))
  /\ [][ pc = "timer" =>
           /\ UNCHANGED <<output_type, exception, idleVars, listVars,
                          prVars, commitVars, issueVars, writeVars>>
           /\ pc' = "timer" =>
                /\ countdown_time > 0
                /\ countdown_time' = countdown_time - 1
                /\ UNCHANGED <<sleep_time, resume>>
           /\ pc' # "timer" =>
                /\ ~(countdown_time > 0)
                /\ SleepsDone = ClampedWait(sleep_time)
                /\ pc' = resume ]_vars

\* the longest wait has made all its sleeps and timer is about to return
C26_Witness ==
  /\ pc = "timer"
  /\ sleep_time = MaxCountdown
  /\ countdown_time = 0

\* ------------------------------------------------------------ GithubParser
\* the functions of GithubParser.py that fetch up to inLimit entries
Getters == {"getPRNumber", "getIssueClosedDate", "getIssueAuthor",
            "getIssueTitle", "getIssueBody", "getIssueComments"}

\* the attribute of an item a function reads
Attribute(g) ==
  CASE g = "getPRNumber"        -> "number"
    [] g = "getIssueClosedDate" -> "closed_at"
    [] g = "getIssueAuthor"     -> "user.name"
    [] g = "getIssueTitle"      -> "title"
    [] g = "getIssueBody"       -> "body"
    [] g = "getIssueComments"   -> "comments"

\* the module-level list a function iterates
CollectionOf(g) == IF g = "getPRNumber" THEN "pulls" ELSE "issues"

\* the collection `name` holding `size` items, in the order of the remote
Items(name, size) == [k \in 1..size |-> [of |-> name, id |-> k]]

\* the entry a function appends for an item, as the pieces of the string:
\* str( item.attribute ), and for getPRNumber + "," + ftitle with ftitle = ''
Entry(g, item) ==
  <<Field(Attribute(g), <<item.id>>)>> \o
  (IF g = "getPRNumber" THEN <<Label(",")>> ELSE <<>>)

\* variant: the test lets index = inLimit through
WithinLimit_Inclusive(i, limit) == i <= limit

\* if index < inLimit
WithinLimit(i, limit) == i < limit

\* a function is called with its limit; nothing is iterated yet
ParserInit ==
  /\ pc = "getter"
  /\ output_type = "pr"
  /\ getter \in Getters
  /\ \E size \in 0..MaxItems : collection = Items(CollectionOf(getter), size)
  /\ inLimit \in 0..MaxLimit
  /\ index = 0
  /\ outList = <<>>
  /\ iterated = 0
  /\ ExtractionInit
  /\ AuthIdle
  /\ TextIdle
  /\ FileIdle

\* the for statement takes the next item and the test holds: the entry is
\* appended and index goes up by one
GetterAppend ==
  /\ pc = "getter"
  /\ iterated < Len(collection)
  /\ WithinLimit(index, inLimit)
  /\ outList' = Append(outList, Entry(getter, collection[iterated + 1]))
  /\ index' = index + 1
  /\ iterated' = iterated + 1
  /\ UNCHANGED <<pc, output_type, getter, collection, inLimit, authVars,
                 textVars, commit_totals, extractionVars>>

\* the for statement takes the next item and the test fails: break, return
GetterBreak ==
  /\ pc = "getter"
  /\ iterated < Len(collection)
  /\ ~WithinLimit(index, inLimit)
  /\ iterated' = iterated + 1
  /\ pc' = "returned"
  /\ UNCHANGED <<output_type, getter, collection, inLimit, index, outList,
                 authVars, textVars, commit_totals, extractionVars>>

\* the collection has no next item: the for statement ends, return
GetterExhausted ==
  /\ pc = "getter"
  /\ ~(iterated < Len(collection))
  /\ pc' = "returned"
  /\ UNCHANGED <<output_type, parserVars, authVars, textVars,
                 commit_totals, extractionVars>>

ParserNext ==
  \/ GetterAppend
  \/ GetterBreak
  \/ GetterExhausted

ParserSpec == ParserInit /\ [][ParserNext]_vars

\* the smaller of two numbers
Min(a, b) == IF a < b THEN a ELSE b

\* ------------------------------------------------------------------- C29
\* C29 (legacy bounded fetch): each of getPRNumber, getIssueClosedDate,
\* getIssueAuthor, getIssueTitle, getIssueBody and getIssueComments, called
\* with limit L over a collection of S items, returns exactly min(L, S)
\* entries, entry k made from the attribute of item k of the collection in
\* collection order, and never takes more than L + 1 items from the
\* collection.
C29_LegacyBoundedFetch ==
  /\ iterated <= inLimit + 1
  /\ iterated <= Len(collection)
  /\ pc = "returned" =>
       /\ Len(outList) = Min(inLimit, Len(collection))
       /\ iterated = Min(inLimit + 1, Len(collection))
       /\ \A k \in 1..Len(outList) :
            /\ outList[k][1].f = Attribute(getter)
            /\ outList[k][1].src = <<collection[k].id>>
            /\ collection[k].of = CollectionOf(getter)

\* main's limit of 5 over a collection with more than 6 issues: the
\* function has returned with items left untaken
C29_Witness ==
  /\ pc = "returned"
  /\ getter = "getIssueClosedDate"
  /\ inLimit = 5
  /\ Len(collection) > inLimit + 1

\* -------------------------------------------------- get_commit_info, files
\* the File Records of a commit: name, line counts, patch and status; the
\* patch of a file can be None (a binary file)
FileA == [filename  |-> <<"a">>,
          additions |-> 1, deletions |-> 2, changes |-> 3,
          patch     |-> [isNone |-> FALSE, text |-> <<"@">>],
          status    |-> <<"m", "o", "d", "i", "f", "i", "e", "d">>]
FileB == [filename  |-> <<"b">>,
          additions |-> 4, deletions |-> 0, changes |-> 4,
          patch     |-> [isNone |-> TRUE, text |-> <<>>],
          status    |-> <<"a", "d", "d", "e", "d">>]

\* cur_commit.files: at most MaxFiles files, in the order of the remote
FileLists == UNION { [1..n -> {FileA, FileB}] : n \in 0..MaxFiles }

\* the literal " =||= " in commit_list
FileSentinelRef == [kind |-> SENTINEL, pr |-> 0, pos |-> 0, files |-> <<>>]

\* what commit_list can hold at index i: the placeholder, or the last
\* commit of pull request i + 1 with its files
CommitListAt(i) ==
  {FileSentinelRef} \cup
  { [kind |-> "commit", pr |-> i + 1, pos |-> 0, files |-> fs] :
      fs \in FileLists }

\* str( file.patch )
PatchStr(patch) ==
  IF patch.isNone THEN <<"N", "o", "n", "e">> ELSE patch.text

\* the str ", "
Separator == <<",", " ">>

\* the accumulators as initialised before the loop: " =||= " each, and
\* commit_status_str not bound yet
TotalsInit ==
  [file_list         |-> SentinelChars,
   commit_patch_text |-> SentinelChars,
   commit_adds       |-> SentinelChars,
   commit_rms        |-> SentinelChars,
   commit_changes    |-> SentinelChars]

\* variant: the reset statements run in the first pass that reaches them
\* only, as if they stood before the loop
TotalsAtReset_Once(st) ==
  IF st.commit_info_list = <<>>
    THEN [file_list         |-> <<>>,
          commit_patch_text |-> <<>>,
          commit_adds       |-> 0,
          commit_rms        |-> 0,
          commit_status_str |-> <<>>,
          commit_changes    |-> 0]
    ELSE st.commit_totals

\* the accumulators after the reset statements of the pass
TotalsAtReset(st) ==
  [file_list         |-> <<>>,
   commit_patch_text |-> <<>>,
   commit_adds       |-> 0,
   commit_rms        |-> 0,
   commit_status_str |-> <<>>,
   commit_changes    |-> 0]

\* one pass of `for file in commit_files`
AddFile(totals, file) ==
  [file_list         |-> Append(totals.file_list, file.filename),
   commit_adds       |-> totals.commit_adds + file.additions,
   commit_changes    |-> totals.commit_changes + file.changes,
   commit_patch_text |->
     totals.commit_patch_text \o PatchStr(file.patch) \o Separator,
   commit_rms        |-> totals.commit_rms + file.deletions,
   commit_status_str |-> totals.commit_status_str \o file.status \o Separator]

\* the whole for loop over commit_files
RECURSIVE AfterFiles(_, _)
AfterFiles(totals, commit_files) ==
  IF commit_files = <<>> THEN totals
  ELSE AfterFiles(AddFile(totals, Head(commit_files)), Tail(commit_files))

\* commit_info_list of the commit type: the base list and the += of the
\* eight further fields
FileCommitInfoList(cur_commit, totals) ==
  LET c == <<cur_commit.pr, cur_commit.pos>> IN
  <<Field("commit_author", c), Field("commit_message", c),
    Field("commit_committer", c), Field("commit_SHA", c),
    totals.file_list,
    totals.commit_patch_text,
    totals.commit_adds,
    totals.commit_rms,
    Quoted(totals.commit_status_str),
    totals.commit_changes>>

\* the locals of get_commit_info as they stand
FilesLocals == [index                |-> commit_list_index,
                commit_info_list     |-> commit_info_list,
                commit_info_metalist |-> commit_info_metalist,
                commit_totals        |-> commit_totals]

\* one pass of the try block that raises nothing, commit type
FilesPass(st, cur_commit) ==
  LET totals == IF cur_commit.kind # SENTINEL
                  THEN AfterFiles(TotalsAtReset(st), cur_commit.files)
                  ELSE st.commit_totals
      info   == IF cur_commit.kind # SENTINEL
                  THEN FileCommitInfoList(cur_commit, totals)
                  ELSE st.commit_info_list
  IN [index                |-> st.index + 1,
      commit_info_list     |-> info,
      commit_info_metalist |-> Append(st.commit_info_metalist, info),
      commit_totals        |-> totals]

\* commit_list[commit_list_index]: the element as read before, or, at an
\* index not read before, whatever get_PR_info put there
NextCommits ==
  IF commit_list_index < Len(commits_list)
    THEN {commits_list[commit_list_index + 1]}
    ELSE CommitListAt(commit_list_index)

\* commit_list as far as it has been read, cur_commit included
CommitsRead(cur_commit) ==
  IF commit_list_index < Len(commits_list)
    THEN commits_list
    ELSE Append(commits_list, cur_commit)

\* write_csv_output calls get_commit_info with the commit type
FilesInit ==
  /\ pc = "files"
  /\ output_type = "commit"
  /\ ExtractionInit
  /\ AuthIdle
  /\ TextIdle
  /\ ParserIdle
  /\ commit_totals = TotalsInit

\* one pass of the loop from the read of commit_list to the index += 1
FilesIterate ==
  /\ pc = "files"
  /\ commit_list_index < RATE_LIMIT
  /\ \E cur_commit \in NextCommits :
       LET st == FilesPass(FilesLocals, cur_commit) IN
       /\ commits_list' = CommitsRead(cur_commit)
       /\ commit_list_index' = st.index
       /\ commit_info_list' = st.commit_info_list
       /\ commit_info_metalist' = st.commit_info_metalist
       /\ commit_totals' = st.commit_totals
  /\ UNCHANGED <<pc, output_type, exception, authVars, textVars, parserVars,
                 listVars, pr_index, most_recent_commit, pr_metalist,
                 issueVars, writeVars, countdown_time, resume, sleep_time>>

\* a remote call of the pass raises RateLimitExceededException: the lazy
\* commit attribute (line 247) or the file list (line 281, below the
\* assignment of commit_info_list and the reset statements)
FilesRateLimited ==
  /\ pc = "files"
  /\ commit_list_index < RATE_LIMIT
  /\ \E cur_commit \in NextCommits :
       \E line \in CommitRaiseLines(cur_commit, output_type) :
         /\ commits_list' = CommitsRead(cur_commit)
         /\ commit_info_list' =
              CommitInfoListAtRaise(cur_commit, commit_info_list, line)
         /\ commit_totals' =
              IF line > 277 THEN TotalsAtReset(FilesLocals) ELSE commit_totals
  /\ commit_list_index' = IndexAfterRaise(commit_list_index)
  /\ RunTimer("files")
  /\ UNCHANGED <<output_type, exception, authVars, textVars, parserVars,
                 listVars, pr_index, most_recent_commit, pr_metalist,
                 commit_info_metalist, issueVars, writeVars>>

\* the loop ends, get_commit_info returns
FilesReturn ==
  /\ pc = "files"
  /\ ~(commit_list_index < RATE_LIMIT)
  /\ pc' = "files_returned"
  /\ UNCHANGED <<output_type, exception, idleVars,
                 listVars, prVars, commitVars, issueVars,
                 writeVars, countdown_time, resume, sleep_time>>

FilesNext ==
  \/ FilesIterate
  \/ FilesRateLimited
  \/ TimerTick
  \/ TimerDone
  \/ FilesReturn

FilesSpec == FilesInit /\ [][FilesNext]_vars

\* the sum of attribute attr over files
RECURSIVE Total(_, _)
Total(files, attr) ==
  IF files = <<>> THEN 0 ELSE Head(files)[attr] + Total(Tail(files), attr)

\* the strs of a list, each followed by ", ", as one str
RECURSIVE Joined(_)
Joined(strs) ==
  IF strs = <<>> THEN <<>>
  ELSE Head(strs) \o Separator \o Joined(Tail(strs))

\* ------------------------------------------------------------------- C22
\* C22 (per-commit aggregation, "commit" mode): for every commit with
\* files f1..fk, the fragment's file list holds exactly their names in
\* order, its patch text is the str of each file's patch followed by ", ",
\* its Additions, Deletions and Changes are the sums of the additions,
\* deletions and changes of exactly f1..fk (0 when k = 0), and its status
\* is the quote-wrapped statuses each followed by ", "; nothing of a commit
\* at an earlier index, or of an earlier try of the same index, is in it.
C22_PerCommitAggregation ==
  \A i \in 1..Len(commit_info_metalist) :
    commits_list[i].kind # SENTINEL =>
      LET files == commits_list[i].files
          frag  == commit_info_metalist[i]
          k     == Len(files)
      IN /\ Len(frag) = 10
         /\ frag[5] = [n \in 1..k |-> files[n].filename]
         /\ frag[6] = Joined([n \in 1..k |-> PatchStr(files[n].patch)])
         /\ frag[7] = Total(files, "additions")
         /\ frag[8] = Total(files, "deletions")
         /\ frag[9] = Quoted(Joined([n \in 1..k |-> files[n].status]))
         /\ frag[10] = Total(files, "changes")

\* a commit without files was processed after a commit with MaxFiles files
C22_Witness ==
  /\ Len(commit_info_metalist) >= 2
  /\ commits_list[1].kind # SENTINEL
  /\ Len(commits_list[1].files) = MaxFiles
  /\ commits_list[2].kind # SENTINEL
  /\ commits_list[2].files = <<>>
  /\ commit_info_metalist[2][7] = 0

====
